---- MODULE Spec2Model ----
(***************************************************************************)
(* Model of the ZX-diagram graph layer of hermit-q:                        *)
(*   src/src/zx/graph.rs         the Graph capability contract (trait)     *)
(*   src/src/zx/simple_graph.rs  GGraph, the backend over                  *)
(*                               petgraph::Graph<_, _, Undirected, Ix>     *)
(*                                                                         *)
(* GGraph forwards every operation to petgraph::Graph, so the state is the *)
(* state of that adjacency-list graph: a vector of nodes and a vector of   *)
(* edges, each edge threaded on the outgoing list of its first endpoint    *)
(* and on the incoming list of its second endpoint.  Handles (NodeIndex,   *)
(* EdgeIndex) are 0-based positions in those vectors.                      *)
(***************************************************************************)
EXTENDS Integers, Sequences, FiniteSets

VARIABLES g,        \* GGraph.g : [nodes, edges], the petgraph graph
          inputs,   \* GGraph.inputs  : set of vertex handles
          outputs,  \* GGraph.outputs : set of vertex handles
          last      \* the last call: its name, arguments, the graph before
                    \* it, what it returned and whether it returned at all

vars == <<g, inputs, outputs, last>>

-----------------------------------------------------------------------------
(* Bounds of the model *)

MaxSize == 4        \* most vertices and edges, together, a graph holds
MaxOther == 2      \* most vertices of the graph handed to compose / tensor

-----------------------------------------------------------------------------
(* Values *)

\* EdgeIndex::end() / NodeIndex::end(): the index type's largest value, used
\* as the end-of-list mark.  The model instantiates GGraph<Ix> with Ix = u8.
END == 255

VertexKinds == {"Z", "X", "Boundary", "HBox"}
EdgeKinds == {"Regular", "Hadam"}

\* A default phase of a full turn, 2 (in units of pi), not brought back
\* to 0
Phase_full_turn == [f |-> <<2, 1>>]

\* Phase::default(): the fraction 0.into(), numerator over denominator
Phase_default == [f |-> <<0, 1>>]
VertexKind_default == "Boundary"
EdgeKind_default == "Regular"

\* The Phase values a caller can hold: Phase's field is private and the only
\* constructor is Default.
Phases == {Phase_default}

\* Option<T>
None == <<>>
Some(x) == <<x>>

\* 0-based vector access
InBounds(s, i) == i \in 0..(Len(s) - 1)
Get(s, i) == s[i + 1]
Put(s, i, x) == [s EXCEPT ![i + 1] = x]

\* Vec::swap_remove(i): the last element takes the place of element i
swap_remove(s, i) ==
    LET n == Len(s) IN
    IF i = n - 1 THEN SubSeq(s, 1, n - 1)
    ELSE SubSeq(Put(s, i, s[n]), 1, n - 1)

\* VertexData { phase, kind } and EdgeData { kind }.  The field `from` is a
\* history field: the handle the element had when the last call began (END
\* for an element that call created).  It rides with the weight wherever
\* petgraph moves it and is read by no operation.
VertexData(phase, kind) == [phase |-> phase, kind |-> kind, from |-> END]
EdgeData(kind) == [kind |-> kind, from |-> END]

\* What a caller reads through VData / EData
VData(w) == [phase |-> w.phase, kind |-> w.kind]
EData(w) == [kind |-> w.kind]

\* The graph as a call finds it: every element marked with its handle
Mark(G) ==
    [nodes |-> [i \in 1..Len(G.nodes) |-> [G.nodes[i] EXCEPT !.weight.from = i - 1]],
     edges |-> [i \in 1..Len(G.edges) |-> [G.edges[i] EXCEPT !.weight.from = i - 1]]]

EmptyGraph == [nodes |-> <<>>, edges |-> <<>>]

-----------------------------------------------------------------------------
(* petgraph::Graph<VertexData, EdgeData, Undirected, Ix>, the field `g`.    *)
(* A node is [weight, next]; an edge is [weight, node, next].  next[1]     *)
(* heads/continues the outgoing list, next[2] the incoming list; node[1]   *)
(* is the edge's source and node[2] its target.                            *)

\* self.g.node_count() / self.g.edge_count()
g_node_count(G) == Len(G.nodes)
g_edge_count(G) == Len(G.edges)

\* node_indices counting from 1
g_node_indices_from_one(G) == [i \in 1..Len(G.nodes) |-> i]

\* self.g.node_indices() / self.g.edge_indices(): 0 .. len-1 in order
g_node_indices(G) == [i \in 1..Len(G.nodes) |-> i - 1]
g_edge_indices(G) == [i \in 1..Len(G.edges) |-> i - 1]

\* self.g.node_weight(v) / self.g.edge_weight(e) / self.g.edge_endpoints(e)
g_node_weight(G, v) == IF InBounds(G.nodes, v) THEN Some(Get(G.nodes, v).weight) ELSE None
g_edge_weight(G, e) == IF InBounds(G.edges, e) THEN Some(Get(G.edges, e).weight) ELSE None
g_edge_endpoints(G, e) == IF InBounds(G.edges, e) THEN Some(Get(G.edges, e).node) ELSE None

\* self.g.add_node(weight): push a node with empty edge lists
g_add_node(G, weight) ==
    [g |-> [G EXCEPT !.nodes = Append(@, [weight |-> weight, next |-> <<END, END>>])],
     ret |-> Len(G.nodes)]

\* self.g.add_edge(a, b, weight): panics when an index is out of bounds,
\* else pushes the edge at the head of a's outgoing and b's incoming list
g_add_edge(G, a, b, weight) ==
    LET edge_idx == Len(G.edges) IN
    IF ~InBounds(G.nodes, a) \/ ~InBounds(G.nodes, b)
    THEN [g |-> G, ret |-> END, outcome |-> "panic"]
    ELSE LET an == Get(G.nodes, a)
             bn == Get(G.nodes, b)
             edge == [weight |-> weight, node |-> <<a, b>>,
                      next |-> IF a = b THEN an.next ELSE <<an.next[1], bn.next[2]>>]
             nodes1 == IF a = b
                       THEN [G.nodes EXCEPT ![a + 1].next = <<edge_idx, edge_idx>>]
                       ELSE [G.nodes EXCEPT ![a + 1].next[1] = edge_idx,
                                            ![b + 1].next[2] = edge_idx]
         IN [g |-> [nodes |-> nodes1, edges |-> Append(G.edges, edge)],
             ret |-> edge_idx, outcome |-> "ok"]

\* edges_walker_mut loop of change_edge_links: the first edge of list k,
\* from cur on, whose link is e gets the link repl
RECURSIVE walk_replace(_, _, _, _, _)
walk_replace(edges, cur, k, e, repl) ==
    IF ~InBounds(edges, cur) THEN edges
    ELSE IF Get(edges, cur).next[k] = e
         THEN [edges EXCEPT ![cur + 1].next[k] = repl]
         ELSE walk_replace(edges, Get(edges, cur).next[k], k, e, repl)

\* change_edge_links, one direction k: unlink e from list k of edge_node[k]
change_edge_link(G, edge_node, e, edge_next, k) ==
    LET node == Get(G.nodes, edge_node[k])
        fst == node.next[k]
    IN IF fst = e
       THEN [G EXCEPT !.nodes[edge_node[k] + 1].next[k] = edge_next[k]]
       ELSE [G EXCEPT !.edges = walk_replace(@, fst, k, e, edge_next[k])]

\* change_edge_links: both directions, returning early on a missing node
change_edge_links(G, edge_node, e, edge_next) ==
    IF ~InBounds(G.nodes, edge_node[1]) THEN G
    ELSE LET G1 == change_edge_link(G, edge_node, e, edge_next, 1) IN
         IF ~InBounds(G1.nodes, edge_node[2]) THEN G1
         ELSE change_edge_link(G1, edge_node, e, edge_next, 2)

\* remove_edge_adjust_indices: swap_remove the edge and relink the edge
\* that took its place
remove_edge_adjust_indices(G, e) ==
    LET edges1 == swap_remove(G.edges, e)
        G1 == [G EXCEPT !.edges = edges1]
    IN IF ~InBounds(edges1, e) THEN G1
       ELSE change_edge_links(G1, Get(edges1, e).node, Len(edges1), <<e, e>>)

\* self.g.remove_edge(e): nothing when e is out of bounds
g_remove_edge(G, e) ==
    IF ~InBounds(G.edges, e) THEN G
    ELSE LET x == Get(G.edges, e) IN
         remove_edge_adjust_indices(change_edge_links(G, x.node, e, x.next), e)

\* remove_node's inner loop: remove the head of list k of node a until the
\* list is empty
RECURSIVE remove_edges_of(_, _, _)
remove_edges_of(G, a, k) ==
    LET next == Get(G.nodes, a).next[k] IN
    IF next = END THEN G
    ELSE remove_edges_of(g_remove_edge(G, next), a, k)

\* remove_node's last loop: every edge of list k, from cur on, gets
\* new_index as its endpoint k
RECURSIVE walk_set_node(_, _, _, _)
walk_set_node(edges, cur, k, new_index) ==
    IF ~InBounds(edges, cur) THEN edges
    ELSE walk_set_node([edges EXCEPT ![cur + 1].node[k] = new_index],
                       Get(edges, cur).next[k], k, new_index)

\* remove_node with the loop over DIRECTIONS cut to the outgoing list
g_remove_node_outgoing_only(G, a) ==
    IF ~InBounds(G.nodes, a) THEN G
    ELSE LET G1 == remove_edges_of(G, a, 1)
             nodes1 == swap_remove(G1.nodes, a)
         IN IF ~InBounds(nodes1, a) THEN [G1 EXCEPT !.nodes = nodes1]
            ELSE LET swap_edges == Get(nodes1, a).next
                     edges1 == walk_set_node(G1.edges, swap_edges[1], 1, a)
                     edges2 == walk_set_node(edges1, swap_edges[2], 2, a)
                 IN [nodes |-> nodes1, edges |-> edges2]

\* remove_node without the walk that gives the relocated node's edges their
\* new endpoint index
g_remove_node_no_reindex(G, a) ==
    IF ~InBounds(G.nodes, a) THEN G
    ELSE LET G1 == remove_edges_of(remove_edges_of(G, a, 1), a, 2)
         IN [G1 EXCEPT !.nodes = swap_remove(G1.nodes, a)]

\* self.g.remove_node(a): nothing when a is out of bounds; else remove the
\* edges from and to a, swap_remove the node, and give the edges of the node
\* that took its place their new endpoint index
g_remove_node(G, a) ==
    IF ~InBounds(G.nodes, a) THEN G
    ELSE LET G1 == remove_edges_of(remove_edges_of(G, a, 1), a, 2)
             nodes1 == swap_remove(G1.nodes, a)
         IN IF ~InBounds(nodes1, a) THEN [G1 EXCEPT !.nodes = nodes1]
            ELSE LET swap_edges == Get(nodes1, a).next
                     edges1 == walk_set_node(G1.edges, swap_edges[1], 1, a)
                     edges2 == walk_set_node(edges1, swap_edges[2], 2, a)
                 IN [nodes |-> nodes1, edges |-> edges2]

\* Neighbors::next, first part: the targets of the outgoing list
RECURSIVE neighbors_outgoing(_, _)
neighbors_outgoing(edges, cur) ==
    IF ~InBounds(edges, cur) THEN <<>>
    ELSE <<Get(edges, cur).node[2]>> \o neighbors_outgoing(edges, Get(edges, cur).next[1])

\* Neighbors::next, second part: the sources of the incoming list, the
\* self-loops (source = skip_start) skipped
RECURSIVE neighbors_incoming(_, _, _)
neighbors_incoming(edges, cur, skip_start) ==
    IF ~InBounds(edges, cur) THEN <<>>
    ELSE (IF Get(edges, cur).node[1] # skip_start
          THEN <<Get(edges, cur).node[1]>> ELSE <<>>)
         \o neighbors_incoming(edges, Get(edges, cur).next[2], skip_start)

\* self.g.neighbors(a), the items the iterator yields, in order
g_neighbors(G, a) ==
    LET next == IF InBounds(G.nodes, a) THEN Get(G.nodes, a).next ELSE <<END, END>> IN
    neighbors_outgoing(G.edges, next[1]) \o neighbors_incoming(G.edges, next[2], a)

\* find_edge_undirected_from_node, one direction k
RECURSIVE find_edge_from(_, _, _, _)
find_edge_from(edges, edix, k, b) ==
    IF ~InBounds(edges, edix) THEN FALSE
    ELSE IF Get(edges, edix).node[3 - k] = b THEN TRUE
         ELSE find_edge_from(edges, Get(edges, edix).next[k], k, b)

\* contains_edge as it would be on a directed graph: the outgoing list only
g_contains_edge_outgoing_only(G, a, b) ==
    /\ InBounds(G.nodes, a)
    /\ find_edge_from(G.edges, Get(G.nodes, a).next[1], 1, b)

\* self.g.contains_edge(a, b)
g_contains_edge(G, a, b) ==
    /\ InBounds(G.nodes, a)
    /\ \/ find_edge_from(G.edges, Get(G.nodes, a).next[1], 1, b)
       \/ find_edge_from(G.edges, Get(G.nodes, a).next[2], 2, b)

-----------------------------------------------------------------------------
(* impl Graph for GGraph<Ix>.  G is the field self.g; a method that returns *)
(* a value gives [g, ret] and one that can panic gives [g, ret, outcome].   *)

\* todo!(): the call panics, self is as before
todo(self) == [self |-> self, outcome |-> "panic"]

set_input(self, v, flag) == todo(self)
set_output(self, v, flag) == todo(self)
is_input(self, v) == todo(self)
is_output(self, v) == todo(self)
inputs_iter(self) == todo(self)
outputs_iter(self) == todo(self)
adjoint(self) == todo(self)
compose(self, other) == todo(self)
tensor(self, other) == todo(self)

num_vertices(G) == g_node_count(G)
num_edges(G) == g_edge_count(G)
vertices(G) == g_node_indices(G)
edges(G) == g_edge_indices(G)
vertex(G, v) == g_node_weight(G, v)
vertex_mut(G, v) == g_node_weight(G, v)
edge(G, e) == g_edge_weight(G, e)
edge_mut(G, e) == g_edge_weight(G, e)
edge_endpoints(G, e) == g_edge_endpoints(G, e)
neighbours(G, v) == g_neighbors(G, v)

\* vertex_degree as the count of edge ends on v: a self-loop counts twice
vertex_degree_edge_ends(G, v) ==
    Len(neighbours(G, v)) +
        Cardinality({i \in 1..Len(G.edges) : G.edges[i].node = <<v, v>>})

vertex_degree(G, v) == Len(neighbours(G, v))

connected(G, v, u) == g_contains_edge(G, v, u)

\* add_vertex with the arguments dropped: the vertex add_vertices would make
add_vertex_default_data(G, kind, phase) ==
    g_add_node(G, VertexData(Phase_default, VertexKind_default))

\* add_vertex (the backend's override): one add_node with the given data
add_vertex(G, kind, phase) ==
    g_add_node(G, VertexData(phase, kind))

\* add_vertices: count times add_node(Default::default()), the handles pushed
\* in order
RECURSIVE add_vertices_loop(_, _, _)
add_vertices_loop(G, res, count) ==
    IF count = 0 THEN [g |-> G, ret |-> res]
    ELSE LET r == g_add_node(G, VertexData(Phase_default, VertexKind_default))
         IN add_vertices_loop(r.g, Append(res, r.ret), count - 1)

\* add_vertices with the loop run once too few
add_vertices_one_short(G, count) ==
    add_vertices_loop(G, <<>>, IF count = 0 THEN 0 ELSE count - 1)

add_vertices(G, count) == add_vertices_loop(G, <<>>, count)

\* add_edge as a simple graph would have it: no second edge between two
\* connected vertices
add_edge_simple(G, v, u, kind) ==
    IF g_contains_edge(G, u, v) THEN [g |-> G, ret |-> 0, outcome |-> "ok"]
    ELSE g_add_edge(G, u, v, EdgeData(kind))

\* add_edge(v, u, kind): petgraph's add_edge with the endpoints as (u, v)
add_edge(G, v, u, kind) == g_add_edge(G, u, v, EdgeData(kind))

\* remove_vertex with a handle past the end taken for the last vertex
remove_vertex_clamped(G, v) ==
    g_remove_node(G, IF v >= g_node_count(G) /\ g_node_count(G) > 0
                     THEN g_node_count(G) - 1 ELSE v)

remove_vertex(G, v) == g_remove_node(G, v)

remove_edge(G, e) == g_remove_edge(G, e)

\* Graph::remove_vertices (the trait's default): remove_vertex on each in turn
RECURSIVE remove_vertices(_, _)
remove_vertices(G, vs) ==
    IF vs = <<>> THEN G ELSE remove_vertices(remove_vertex(G, Head(vs)), Tail(vs))

\* Graph::remove_edges (the trait's default): remove_edge on each in turn
RECURSIVE remove_edges(_, _)
remove_edges(G, es) ==
    IF es = <<>> THEN G ELSE remove_edges(remove_edge(G, Head(es)), Tail(es))

\* A write through vertex_mut(v): kind_mut and phase_mut of the data found,
\* nothing when the handle resolves to None
write_vertex(G, v, kind, phase) ==
    IF vertex_mut(G, v) = None THEN G
    ELSE [G EXCEPT !.nodes[v + 1].weight.kind = kind,
                   !.nodes[v + 1].weight.phase = phase]

\* Graph::add_vertex (the trait's default, which GGraph overrides):
\* add_vertices(1)[0], then kind and phase written through
\* vertex_mut(v).unwrap()
Graph_add_vertex(G, kind, phase) ==
    LET r == add_vertices(G, 1)
        v == r.ret[1]
    IN IF vertex_mut(r.g, v) = None
       THEN [g |-> r.g, ret |-> v, outcome |-> "panic"]
       ELSE [g |-> write_vertex(r.g, v, kind, phase), ret |-> v, outcome |-> "ok"]

\* A write through edge_mut(e): kind_mut of the data found
write_edge(G, e, kind) ==
    IF edge_mut(G, e) = None THEN G
    ELSE [G EXCEPT !.edges[e + 1].weight.kind = kind]

-----------------------------------------------------------------------------
(* The caller *)

\* Handles a caller may pass: every live handle and the first one out of
\* range (the code tells handles apart only by comparing them with the
\* vector's length)
VertexHandles == 0..num_vertices(g)
EdgeHandles == 0..num_edges(g)

Size(G) == num_vertices(G) + num_edges(G)

\* The handle lists given to remove_vertices / remove_edges: none, one or
\* two handles, repeats included
Batches(S) == {<<>>} \cup {<<x>> : x \in S} \cup {<<x, y>> : x \in S, y \in S}

\* The kinds a caller gives its vertices
KindInputs == {"Z", "Boundary"}

\* The graphs handed to compose / tensor: a path of n default vertices
RECURSIVE path_edges(_, _)
path_edges(G, i) ==
    IF i + 1 >= num_vertices(G) THEN G
    ELSE path_edges(add_edge(G, i, i + 1, EdgeKind_default).g, i + 1)

OtherGraphs ==
    {[g |-> path_edges(add_vertices(EmptyGraph, n).g, 0), inputs |-> {}, outputs |-> {}]
        : n \in 0..MaxOther}

Self == [g |-> Mark(g), inputs |-> inputs, outputs |-> outputs]

NoCall == [op |-> "new", a |-> END, b |-> END, kind |-> "",
           phase |-> Phase_default, flag |-> FALSE,
           other |-> EmptyGraph, pre |-> EmptyGraph, ret |-> <<>>, outcome |-> "ok"]

\* The record of a call on the current graph
Call(op) == [NoCall EXCEPT !.op = op, !.pre = Mark(g)]

\* The caller makes its next call once it is done with the last one's
\* result; a panic unwinds out of the caller, and nothing runs after it
Running == last = NoCall

Init ==
    /\ g = EmptyGraph
    /\ inputs = {}
    /\ outputs = {}
    /\ last = NoCall

AddVertices(count) ==
    /\ Running
    /\ Size(g) + count <= MaxSize
    /\ LET r == add_vertices(Mark(g), count) IN
        /\ g' = r.g
        /\ last' = [Call("add_vertices") EXCEPT !.a = count, !.ret = r.ret]
    /\ UNCHANGED <<inputs, outputs>>

AddVertex(kind, phase) ==
    /\ Running
    /\ Size(g) < MaxSize
    /\ LET r == add_vertex(Mark(g), kind, phase) IN
        /\ g' = r.g
        /\ last' = [Call("add_vertex") EXCEPT !.kind = kind, !.phase = phase,
                                               !.ret = <<r.ret>>]
    /\ UNCHANGED <<inputs, outputs>>

AddEdge(v, u, kind) ==
    /\ Running
    /\ Size(g) < MaxSize
    /\ LET r == add_edge(Mark(g), v, u, kind) IN
        /\ g' = r.g
        /\ last' = [Call("add_edge") EXCEPT !.a = v, !.b = u, !.kind = kind,
                                            !.ret = <<r.ret>>, !.outcome = r.outcome]
    /\ UNCHANGED <<inputs, outputs>>

RemoveVertex(v) ==
    /\ Running
    /\ g' = remove_vertex(Mark(g), v)
    /\ last' = [Call("remove_vertex") EXCEPT !.a = v]
    /\ UNCHANGED <<inputs, outputs>>

RemoveEdge(e) ==
    /\ Running
    /\ g' = remove_edge(Mark(g), e)
    /\ last' = [Call("remove_edge") EXCEPT !.a = e]
    /\ UNCHANGED <<inputs, outputs>>

RemoveVertices(vs) ==
    /\ Running
    /\ g' = remove_vertices(Mark(g), vs)
    /\ last' = Call("remove_vertices")
    /\ UNCHANGED <<inputs, outputs>>

RemoveEdges(es) ==
    /\ Running
    /\ g' = remove_edges(Mark(g), es)
    /\ last' = Call("remove_edges")
    /\ UNCHANGED <<inputs, outputs>>

WriteVertex(v, kind, phase) ==
    /\ Running
    /\ g' = write_vertex(Mark(g), v, kind, phase)
    /\ last' = [Call("vertex_mut") EXCEPT !.a = v, !.kind = kind, !.phase = phase]
    /\ UNCHANGED <<inputs, outputs>>

WriteEdge(e, kind) ==
    /\ Running
    /\ g' = write_edge(Mark(g), e, kind)
    /\ last' = [Call("edge_mut") EXCEPT !.a = e, !.kind = kind]
    /\ UNCHANGED <<inputs, outputs>>

\* A call of a method whose body is todo!()
Todo(op, r, v, flag, other) ==
    /\ Running
    /\ g' = r.self.g
    /\ inputs' = r.self.inputs
    /\ outputs' = r.self.outputs
    /\ last' = [Call(op) EXCEPT !.a = v, !.flag = flag, !.other = other,
                                 !.outcome = r.outcome]

SetInput(v, flag) == Todo("set_input", set_input(Self, v, flag), v, flag, EmptyGraph)
SetOutput(v, flag) == Todo("set_output", set_output(Self, v, flag), v, flag, EmptyGraph)
IsInput(v) == Todo("is_input", is_input(Self, v), v, FALSE, EmptyGraph)
IsOutput(v) == Todo("is_output", is_output(Self, v), v, FALSE, EmptyGraph)
Inputs == Todo("inputs", inputs_iter(Self), END, FALSE, EmptyGraph)
Outputs == Todo("outputs", outputs_iter(Self), END, FALSE, EmptyGraph)
Adjoint == Todo("adjoint", adjoint(Self), END, FALSE, EmptyGraph)
Compose(other) == Todo("compose", compose(Self, other), END, FALSE, other.g)
Tensor(other) == Todo("tensor", tensor(Self, other), END, FALSE, other.g)

\* The caller is done with the result of the call that returned
Return ==
    /\ last # NoCall
    /\ last.outcome = "ok"
    /\ g' = Mark(g)
    /\ last' = NoCall
    /\ UNCHANGED <<inputs, outputs>>

Next ==
    \/ \E count \in 0..MaxSize : AddVertices(count)
    \/ \E kind \in KindInputs, phase \in Phases : AddVertex(kind, phase)
    \/ \E v \in VertexHandles, u \in VertexHandles, kind \in EdgeKinds : AddEdge(v, u, kind)
    \/ \E v \in VertexHandles : RemoveVertex(v)
    \/ \E e \in EdgeHandles : RemoveEdge(e)
    \/ \E vs \in Batches(VertexHandles) : RemoveVertices(vs)
    \/ \E es \in Batches(EdgeHandles) : RemoveEdges(es)
    \/ \E v \in VertexHandles, kind \in KindInputs, phase \in Phases : WriteVertex(v, kind, phase)
    \/ \E e \in EdgeHandles, kind \in EdgeKinds : WriteEdge(e, kind)
    \/ \E v \in VertexHandles, flag \in BOOLEAN : SetInput(v, flag)
    \/ \E v \in VertexHandles, flag \in BOOLEAN : SetOutput(v, flag)
    \/ \E v \in VertexHandles : IsInput(v)
    \/ \E v \in VertexHandles : IsOutput(v)
    \/ Inputs
    \/ Outputs
    \/ Adjoint
    \/ \E other \in OtherGraphs : Compose(other)
    \/ \E other \in OtherGraphs : Tensor(other)
    \/ Return

Spec == Init /\ [][Next]_vars

-----------------------------------------------------------------------------
(* Properties *)

Rng(s) == {s[i] : i \in 1..Len(s)}

\* The call that just returned, and the graph it was made on
Returned(op) == last.op = op /\ last.outcome = "ok"
Pre == last.pre

\* The handles of the edges of G with v as an endpoint
IncidentEdges(G, v) ==
    {e \in Rng(edges(G)) : v \in Rng(edge_endpoints(G, e)[1])}

\* C1: remove_vertex(v) on a live vertex v of degree k leaves k edges fewer
\* and one vertex fewer, and none of the edges that had v as an endpoint is
\* still in the graph.
C1_RemovalCascades ==
    (Returned("remove_vertex") /\ vertex(Pre, last.a) # None) =>
        LET k == vertex_degree(Pre, last.a) IN
        /\ num_edges(g) = num_edges(Pre) - k
        /\ num_vertices(g) = num_vertices(Pre) - 1
        /\ \A e \in Rng(edges(g)) :
              edge(g, e)[1].from \notin IncidentEdges(Pre, last.a)

\* C1 witness: a vertex with an edge of its own was removed while another
\* vertex, relocated by the removal, kept an edge.
C1_Witness ==
    /\ Returned("remove_vertex")
    /\ vertex(Pre, last.a) # None
    /\ vertex_degree(Pre, last.a) >= 1
    /\ last.a < num_vertices(Pre) - 1
    /\ num_edges(g) >= 1

\* C5: every handle that edges() enumerates has endpoints, and both are
\* handles that vertices() enumerates.
C5_EndpointsLive ==
    \A e \in Rng(edges(g)) :
        /\ edge_endpoints(g, e) # None
        /\ Rng(edge_endpoints(g, e)[1]) \subseteq Rng(vertices(g))

\* C5 witness: remove_vertices took two vertices out of a graph and an edge
\* is left, on a vertex the removals relocated.
C5_Witness ==
    /\ Returned("remove_vertices")
    /\ num_vertices(g) = num_vertices(Pre) - 2
    /\ num_edges(g) >= 1
    /\ \E i \in Rng(vertices(g)) : vertex(g, i)[1].from # i

\* C2: a second remove_vertex(v) right after remove_vertex(v) on a live
\* vertex v changes nothing in the graph, and so does a second
\* remove_edge(e) right after remove_edge(e) on a live edge e.
C2_ReRemovalNoOp ==
    /\ (Returned("remove_vertex") /\ vertex(Pre, last.a) # None) =>
           remove_vertex(g, last.a) = g
    /\ (Returned("remove_edge") /\ edge(Pre, last.a) # None) =>
           remove_edge(g, last.a) = g

\* C3: after remove_vertex(v) on a live vertex v, vertex(v) and
\* vertex_mut(v) are None; after remove_edge(e) on a live edge e, edge(e),
\* edge_mut(e) and edge_endpoints(e) are None.
C3_StaleHandleAbsent ==
    /\ (Returned("remove_vertex") /\ vertex(Pre, last.a) # None) =>
           /\ vertex(g, last.a) = None
           /\ vertex_mut(g, last.a) = None
    /\ (Returned("remove_edge") /\ edge(Pre, last.a) # None) =>
           /\ edge(g, last.a) = None
           /\ edge_mut(g, last.a) = None
           /\ edge_endpoints(g, last.a) = None

\* What a caller sees of a graph: the data of its vertices, and the data
\* and endpoints of its edges, handle by handle
Seen(G) ==
    [nodes |-> [i \in 1..Len(G.nodes) |-> VData(G.nodes[i].weight)],
     edges |-> [i \in 1..Len(G.edges) |->
                   [data |-> EData(G.edges[i].weight), node |-> G.edges[i].node]]]

\* C4: add_edge(v, u, kind) with v or u not a live vertex does not panic,
\* adds no edge and leaves the vertices and edges as they were.
C4_AddEdgeDeadEndpoint ==
    (last.op = "add_edge" /\ (vertex(Pre, last.a) = None \/ vertex(Pre, last.b) = None)) =>
        /\ last.outcome # "panic"
        /\ num_vertices(g) = num_vertices(Pre)
        /\ num_edges(g) = num_edges(Pre)
        /\ Seen(g) = Seen(Pre)

\* Option<&VertexData> / Option<&EdgeData> as the caller reads them
SeenV(o) == IF o = None THEN None ELSE Some(VData(o[1]))
SeenE(o) == IF o = None THEN None ELSE Some(EData(o[1]))

\* s and t hold the same items the same number of times
Count(s, x) == Cardinality({i \in 1..Len(s) : s[i] = x})
SameItems(s, t) == \A x \in Rng(s) \cup Rng(t) : Count(s, x) = Count(t, x)

\* C6: remove_vertex(v) leaves every other live vertex w with the data it
\* had and with the neighbours it had, v excepted; remove_edge(e) leaves
\* every other live edge f with the data and the endpoints it had.
C6_OtherHandlesKept ==
    /\ (Returned("remove_vertex") /\ vertex(Pre, last.a) # None) =>
           \A w \in Rng(vertices(Pre)) \ {last.a} :
               /\ SeenV(vertex(g, w)) = SeenV(vertex(Pre, w))
               /\ SameItems(neighbours(g, w),
                            SelectSeq(neighbours(Pre, w), LAMBDA x : x # last.a))
    /\ (Returned("remove_edge") /\ edge(Pre, last.a) # None) =>
           \A f \in Rng(edges(Pre)) \ {last.a} :
               /\ SeenE(edge(g, f)) = SeenE(edge(Pre, f))
               /\ edge_endpoints(g, f) = edge_endpoints(Pre, f)

\* The vertices of G with exactly one neighbour
DegreeOne(G) == {v \in Rng(vertices(G)) : vertex_degree(G, v) = 1}

\* C7: compose, on a graph with a boundary vertex o of degree 1 and given a
\* graph with a boundary vertex i of degree 1, returns normally and leaves
\* as many vertices as the two graphs had together, less o and i.
C7_ComposeSplices ==
    (last.op = "compose" /\ DegreeOne(Pre) # {} /\ DegreeOne(last.other) # {}) =>
        /\ last.outcome = "ok"
        /\ num_vertices(g) = num_vertices(Pre) + num_vertices(last.other) - 2

\* C8: tensor returns normally and leaves the vertices and the edges of both
\* graphs, as many as the two had together, with inputs() and outputs()
\* there to be read.
C8_TensorSums ==
    last.op = "tensor" =>
        /\ last.outcome = "ok"
        /\ num_vertices(g) = num_vertices(Pre) + num_vertices(last.other)
        /\ num_edges(g) = num_edges(Pre) + num_edges(last.other)
        /\ inputs_iter(Self).outcome = "ok"
        /\ outputs_iter(Self).outcome = "ok"

\* C9: adjoint returns normally, swaps inputs with outputs and changes
\* neither the counts nor the edges; a second adjoint returns normally too
\* and gives every vertex the phase it had at first.
C9_AdjointInvolution ==
    last.op = "adjoint" =>
        /\ last.outcome = "ok"
        /\ num_vertices(g) = num_vertices(Pre)
        /\ num_edges(g) = num_edges(Pre)
        /\ Seen(g).edges = Seen(Pre).edges
        /\ LET again == adjoint(Self) IN
            /\ again.outcome = "ok"
            /\ \A v \in Rng(vertices(Pre)) :
                  vertex(again.self.g, v)[1].phase = vertex(Pre, v)[1].phase
            /\ again.self.inputs = inputs
            /\ again.self.outputs = outputs

\* C10: set_input(v, true) on a live vertex v returns normally with v among
\* the inputs and is_input(v) answering; remove_vertex(v) leaves v neither
\* among the inputs nor among the outputs.
C10_InputMarking ==
    /\ (last.op = "set_input" /\ last.flag /\ vertex(Pre, last.a) # None) =>
           /\ last.outcome = "ok"
           /\ last.a \in inputs
           /\ is_input(Self, last.a).outcome = "ok"
    /\ (Returned("remove_vertex") /\ vertex(Pre, last.a) # None) =>
           last.a \notin inputs \cup outputs

\* The given graph has a designated-input count other than the count of
\* designated outputs of the graph the call is made on
CountsDiffer ==
    \E o \in OtherGraphs :
        o.g = last.other /\ Cardinality(o.inputs) # Cardinality(outputs)

\* C11: compose does not panic, and when the count of outputs of the graph
\* differs from the count of inputs of the given graph it reports an error
\* and leaves the graph as it was.
C11_ComposeMismatchReported ==
    last.op = "compose" =>
        /\ last.outcome # "panic"
        /\ CountsDiffer => (last.outcome = "err" /\ Seen(g) = Seen(Pre))

\* No call has panicked.  A panic unwinds out of the caller and takes the
\* graph with it, so there is a graph to look at only while none has.
NoPanic == last.outcome = "ok"

\* C12: while no call has panicked, for live vertices v and u,
\* connected(v, u) is true exactly when some live edge has v and u as its
\* two endpoints, in either order, and connected(u, v) answers the same; so
\* it stays true while one of several parallel edges is left.  (With the
\* two answers the same, the edges need looking up for one order of v and u
\* only.)
C12_ConnectedIffEdge ==
    NoPanic =>
    LET vs == Rng(vertices(g))
        es == Rng(edges(g))
    IN \A v \in vs, u \in vs :
        LET c == connected(g, v, u) IN
        /\ c <=> connected(g, u, v)
        /\ v <= u =>
               (c <=> \E e \in es : edge_endpoints(g, e)[1] \in {<<v, u>>, <<u, v>>})

\* C12 witness: remove_edge took one of two parallel edges between two
\* vertices, and the two are connected still.
C12_Witness ==
    /\ Returned("remove_edge")
    /\ edge(Pre, last.a) # None
    /\ LET p == edge_endpoints(Pre, last.a)[1] IN
        /\ p[1] # p[2]
        /\ connected(g, p[1], p[2])
        /\ connected(g, p[2], p[1])

\* C13: add_vertices(N) returns N handles, distinct, none of them live
\* before the call and in the order the vertices were made; each new vertex
\* is a Boundary of phase 0 and degree 0; there are N vertices more and as
\* many edges as before, and every vertex and edge live before the call has
\* the data and the endpoints it had.
C13_AddVerticesFresh ==
    Returned("add_vertices") =>
        LET N == last.a
            ret == last.ret
        IN
        /\ Len(ret) = N
        /\ \A i \in 1..N, j \in 1..N : i < j => ret[i] < ret[j]
        /\ \A i \in 1..N :
              /\ vertex(Pre, ret[i]) = None
              /\ vertex(g, ret[i]) # None
              /\ vertex(g, ret[i])[1].from = END
              /\ VData(vertex(g, ret[i])[1]) =
                     [phase |-> Phase_default, kind |-> "Boundary"]
              /\ vertex_degree(g, ret[i]) = 0
        /\ num_vertices(g) = num_vertices(Pre) + N
        /\ num_edges(g) = num_edges(Pre)
        /\ \A w \in Rng(vertices(Pre)) :
              /\ SeenV(vertex(g, w)) = SeenV(vertex(Pre, w))
              /\ neighbours(g, w) = neighbours(Pre, w)
        /\ \A e \in Rng(edges(Pre)) :
              /\ SeenE(edge(g, e)) = SeenE(edge(Pre, e))
              /\ edge_endpoints(g, e) = edge_endpoints(Pre, e)

\* C13 witness: two vertices were added at once to a graph that had a Z
\* vertex with an edge on it.
C13_Witness ==
    /\ Returned("add_vertices")
    /\ last.a = 2
    /\ num_edges(Pre) >= 1
    /\ \E w \in Rng(vertices(Pre)) : vertex(Pre, w)[1].kind = "Z"

\* C14: add_edge(v, u, kind) on live vertices v and u, the same vertex and
\* already connected vertices included, returns a handle that was not live
\* before, whose edge has the given kind and v and u as endpoints; there is
\* one edge more, and every edge live before has the data and the endpoints
\* it had.
C14_AddEdgeAddsOne ==
    (last.op = "add_edge" /\ vertex(Pre, last.a) # None /\ vertex(Pre, last.b) # None) =>
        /\ last.outcome = "ok"
        /\ LET e == last.ret[1] IN
            /\ edge(Pre, e) = None
            /\ edge(g, e) # None
            /\ edge(g, e)[1].from = END
            /\ EData(edge(g, e)[1]) = [kind |-> last.kind]
            /\ Rng(edge_endpoints(g, e)[1]) = {last.a, last.b}
        /\ num_edges(g) = num_edges(Pre) + 1
        /\ num_vertices(g) = num_vertices(Pre)
        /\ \A f \in Rng(edges(Pre)) :
              /\ SeenE(edge(g, f)) = SeenE(edge(Pre, f))
              /\ edge_endpoints(g, f) = edge_endpoints(Pre, f)
        /\ \A w \in Rng(vertices(Pre)) : SeenV(vertex(g, w)) = SeenV(vertex(Pre, w))

\* C14 witness: a second self-loop, of the other kind, was added on a
\* vertex that had one.
C14_Witness ==
    /\ Returned("add_edge")
    /\ last.a = last.b
    /\ connected(Pre, last.a, last.a)
    /\ \E f \in Rng(edges(Pre)) :
          /\ edge_endpoints(Pre, f) = Some(<<last.a, last.a>>)
          /\ edge(Pre, f)[1].kind # last.kind

\* The graph add_edge gives with the two vertices of the last call the
\* other way round
Swapped == add_edge(Pre, last.b, last.a, last.kind)

\* What add_edge(v, u) and add_edge(u, v) share whatever neighbours()
\* yields: the handle, the counts, the new edge's data and pair of
\* endpoints, and connected() and vertex_degree() on every vertex
SwappedAlike ==
    /\ Swapped.outcome = "ok"
    /\ Swapped.ret = last.ret[1]
    /\ num_vertices(Swapped.g) = num_vertices(g)
    /\ num_edges(Swapped.g) = num_edges(g)
    /\ SeenE(edge(Swapped.g, Swapped.ret)) = SeenE(edge(g, last.ret[1]))
    /\ Rng(edge_endpoints(Swapped.g, Swapped.ret)[1]) =
           Rng(edge_endpoints(g, last.ret[1])[1])
    /\ \A w \in Rng(vertices(g)) :
          /\ vertex_degree(Swapped.g, w) = vertex_degree(g, w)
          /\ \A x \in Rng(vertices(g)) :
                connected(Swapped.g, w, x) <=> connected(g, w, x)

\* C15: add_edge(v, u, kind) and add_edge(u, v, kind) on live
\* vertices give the same handle, counts, pair of endpoints, and the same
\* connected(), vertex_degree() and neighbours() results on every vertex.
C15_OrderIndependent ==
    (Returned("add_edge") /\ vertex(Pre, last.a) # None /\ vertex(Pre, last.b) # None) =>
        /\ SwappedAlike
        /\ \A w \in Rng(vertices(g)) : neighbours(Swapped.g, w) = neighbours(g, w)

\* The handles of the edges of G with v and u as their two endpoints
EdgesBetween(G, v, u) ==
    {e \in Rng(edges(G)) : Rng(edge_endpoints(G, e)[1]) = {v, u}}

\* C16: while no call has panicked, for every live vertex v,
\* vertex_degree(v) is the number of items neighbours(v) yields, and
\* neighbours(v) yields a vertex u once for every edge between v and u: once
\* for each of several parallel edges, and once for each edge from v to v.
C16_DegreeIsNeighbourCount ==
    NoPanic =>
    LET vs == Rng(vertices(g)) IN
    \A v \in vs :
        LET items == neighbours(g, v) IN
        /\ vertex_degree(g, v) = Len(items)
        /\ \A u \in vs :
              Count(items, u) = Cardinality(EdgesBetween(g, v, u))

\* C16 witness: a vertex with an edge to itself and a second edge, to
\* itself or to another vertex.
C16_Witness ==
    NoPanic /\ \E v \in Rng(vertices(g)) :
        /\ connected(g, v, v)
        /\ vertex_degree(g, v) >= 2

\* C17: remove_vertex(h) with h not a live vertex returns without a panic
\* and leaves the graph as it was, and so does the same call made again;
\* likewise remove_edge(h) with h not a live edge.
C17_DeadHandleRemovalNoOp ==
    /\ (last.op = "remove_vertex" /\ vertex(Pre, last.a) = None) =>
           /\ last.outcome = "ok"
           /\ g = Pre
           /\ remove_vertex(g, last.a) = g
    /\ (last.op = "remove_edge" /\ edge(Pre, last.a) = None) =>
           /\ last.outcome = "ok"
           /\ g = Pre
           /\ remove_edge(g, last.a) = g

\* C17 witness: remove_vertex was called with a handle that is not live on
\* a graph that has vertices and an edge.
C17_Witness ==
    /\ Returned("remove_vertex")
    /\ vertex(Pre, last.a) = None
    /\ num_vertices(Pre) >= 2
    /\ num_edges(Pre) >= 1

RECURSIVE GCD(_, _)
GCD(m, n) == IF n = 0 THEN m ELSE GCD(n, m % n)

\* p is a fraction in lowest terms within [0, 2)
Canonical(p) ==
    LET n == p.f[1]
        d == p.f[2]
    IN d > 0 /\ 0 <= n /\ n < 2 * d /\ GCD(n, d) = 1

\* C18: while no call has panicked, the phase of every vertex is a fraction
\* in lowest terms within [0, 2); the vertices add_vertices makes have phase
\* 0, and the vertex add_vertex(kind, p) makes has phase p.
C18_PhaseCanonical ==
    /\ NoPanic => \A v \in Rng(vertices(g)) : Canonical(vertex(g, v)[1].phase)
    /\ Returned("add_vertices") =>
           \A i \in 1..Len(last.ret) : vertex(g, last.ret[i])[1].phase.f = <<0, 1>>
    /\ Returned("add_vertex") =>
           vertex(g, last.ret[1])[1].phase = last.phase

\* C18 witness: add_vertex made a Z vertex with the phase it was given in a
\* graph that held a vertex made by add_vertices.
C18_Witness ==
    /\ Returned("add_vertex")
    /\ last.kind = "Z"
    /\ last.phase \in Phases
    /\ vertex(g, last.ret[1])[1].phase = last.phase
    /\ \E w \in Rng(vertices(Pre)) : vertex(Pre, w)[1].kind = "Boundary"

\* C19: add_vertex(kind, phase) as GGraph overrides it gives what the
\* trait's default add_vertex gives on the same graph: the same handle, the
\* same vertices and edges with the same data, the same counts; and the
\* vertex it makes has the kind and phase given as soon as it is there.
C19_OverrideMatchesDefault ==
    Returned("add_vertex") =>
        LET d == Graph_add_vertex(Pre, last.kind, last.phase) IN
        /\ d.outcome = "ok"
        /\ last.ret = <<d.ret>>
        /\ vertices(g) = vertices(d.g)
        /\ edges(g) = edges(d.g)
        /\ num_vertices(g) = num_vertices(d.g)
        /\ num_edges(g) = num_edges(d.g)
        /\ Seen(g) = Seen(d.g)
        /\ \A w \in Rng(vertices(g)) : neighbours(g, w) = neighbours(d.g, w)
        /\ g = d.g
        /\ SeenV(vertex(g, last.ret[1])) =
               Some([phase |-> last.phase, kind |-> last.kind])

\* C19 witness: add_vertex made a Z vertex, which the default attributes
\* would not give, in a graph that had an edge.
C19_Witness ==
    /\ Returned("add_vertex")
    /\ last.kind = "Z"
    /\ last.kind # VertexKind_default
    /\ num_edges(Pre) >= 1
    /\ vertex(g, last.ret[1])[1].kind = "Z"

\* C20: while no call has panicked, vertices() enumerates exactly
\* 0 .. num_vertices()-1 and edges() exactly 0 .. num_edges()-1, each handle
\* once, and these are the handles that resolve; the index a removal frees
\* is taken by the element that was last, or, when the removed element was
\* the last, by the next one added.
C20_DenseHandles ==
    NoPanic =>
    /\ Len(vertices(g)) = num_vertices(g)
    /\ Rng(vertices(g)) = 0..(num_vertices(g) - 1)
    /\ Len(edges(g)) = num_edges(g)
    /\ Rng(edges(g)) = 0..(num_edges(g) - 1)
    /\ \A h \in 0..(Size(g) + 1) :
          /\ vertex(g, h) # None <=> h \in Rng(vertices(g))
          /\ edge(g, h) # None <=> h \in Rng(edges(g))
    /\ (Returned("remove_vertex") /\ vertex(Pre, last.a) # None) =>
           IF last.a = num_vertices(Pre) - 1
           THEN /\ vertex(g, last.a) = None
                /\ add_vertex(g, "Z", Phase_default).ret = last.a
           ELSE /\ vertex(g, last.a) # None
                /\ vertex(g, last.a)[1].from = num_vertices(Pre) - 1
    /\ (Returned("remove_edge") /\ edge(Pre, last.a) # None) =>
           IF last.a = num_edges(Pre) - 1
           THEN /\ edge(g, last.a) = None
                /\ add_edge(g, 0, 0, "Regular").ret = last.a
           ELSE /\ edge(g, last.a) # None
                /\ edge(g, last.a)[1].from = num_edges(Pre) - 1
    /\ Returned("add_vertex") => last.ret = <<num_vertices(Pre)>>
    /\ Returned("add_edge") => last.ret = <<num_edges(Pre)>>

\* C20 witness: remove_edge took an edge that was not the last one, and its
\* handle now gives the edge that was last.
C20_Witness ==
    /\ Returned("remove_edge")
    /\ edge(Pre, last.a) # None
    /\ last.a < num_edges(Pre) - 1
    /\ edge(g, last.a) # None
    /\ edge(g, last.a)[1].from = num_edges(Pre) - 1
    /\ Rng(edges(g)) = 0..(num_edges(Pre) - 2)

====
